---- MODULE Spec2Model ----
(***************************************************************************)
(* ProcessManager of code-d (src/unnamed/part_000): probing and stopping   *)
(* the helper processes serve-d, dcd-server and dcd-client through         *)
(* external commands.  Every `await exec(...)` of the source is one step   *)
(* of a task; the outcome of the command (exit status, stdout) is chosen   *)
(* by the environment.  Text is a sequence of one-character strings, so    *)
(* that trim/split/includes/parseInt are computed as JavaScript does.      *)
(***************************************************************************)
EXTENDS Integers, Sequences, FiniteSets, TLC

(***************************************************************************)
(* Bounds of the model.                                                    *)
(***************************************************************************)
\* at most MaxPids processes are listed by one listing command
MaxPids == 2

\* setupDub is called at most MaxSetups times
MaxSetups == 3

\* startGlobal opens at most MaxSessions progress sessions
MaxSessions == 3

(***************************************************************************)
(* JavaScript numbers and strings.                                         *)
(***************************************************************************)
\* a JavaScript number is <<n>>; NaN is the empty tuple
Num(n) == <<n>>

NaN == <<>>

\* the white space and line terminators trim and parseInt skip, as far as a
\* string of this language can hold them: space, line feed, carriage return,
\* tab, form feed, vertical tab, no-break space, ogham space mark and the
\* byte order mark (U+2000 to U+200A, U+2028, U+2029, U+202F, U+205F and
\* U+3000 cannot be written and are not in the alphabet of the model)
WhiteSpace == {" ", "\n", "\r", "\t", "\f", "", " ", " ", "﻿"}

Digits == <<"0", "1", "2", "3", "4", "5", "6", "7", "8", "9">>

IsDigit(c) == \E i \in 1..10 : Digits[i] = c

DigitVal(c) == (CHOOSE i \in 1..10 : Digits[i] = c) - 1

\* String(undefined), what parseInt sees for a missing array element
Undefined == <<"u", "n", "d", "e", "f", "i", "n", "e", "d">>

RECURSIVE TrimStart(_)
TrimStart(s) ==
    IF s # <<>> /\ Head(s) \in WhiteSpace THEN TrimStart(Tail(s)) ELSE s

RECURSIVE TrimEnd(_)
TrimEnd(s) ==
    IF s # <<>> /\ s[Len(s)] \in WhiteSpace
    THEN TrimEnd(SubSeq(s, 1, Len(s) - 1))
    ELSE s

\* String.prototype.trim
Trim(s) == TrimEnd(TrimStart(s))

\* String.prototype.includes
Includes(s, sub) ==
    \E i \in 1..(Len(s) - Len(sub) + 1) : SubSeq(s, i, i + Len(sub) - 1) = sub

\* String.prototype.split with a non-empty separator
RECURSIVE Split(_, _)
Split(s, sep) ==
    IF Includes(s, sep)
    THEN LET i == CHOOSE k \in 1..(Len(s) - Len(sep) + 1) :
                      /\ SubSeq(s, k, k + Len(sep) - 1) = sep
                      /\ \A j \in 1..(k - 1) : SubSeq(s, j, j + Len(sep) - 1) # sep
         IN  <<SubSeq(s, 1, i - 1)>> \o Split(SubSeq(s, i + Len(sep), Len(s)), sep)
    ELSE <<s>>

\* s.replace(/"/g, "")
StripQuotes(s) == SelectSeq(s, LAMBDA c : c # "\"")

\* value of the longest prefix of decimal digits of s, continuing from acc
RECURSIVE DigitsValue(_, _)
DigitsValue(s, acc) ==
    IF s # <<>> /\ IsDigit(Head(s))
    THEN DigitsValue(Tail(s), 10 * acc + DigitVal(Head(s)))
    ELSE acc

\* parseInt(s, 10): leading white space, an optional sign, then digits
ParseInt(s) ==
    LET t == TrimStart(s)
        neg == t # <<>> /\ Head(t) = "-"
        u == IF t # <<>> /\ Head(t) \in {"-", "+"} THEN Tail(t) ELSE t
    IN  IF u = <<>> \/ ~IsDigit(Head(u))
        THEN NaN
        ELSE Num(IF neg THEN 0 - DigitsValue(u, 0) ELSE DigitsValue(u, 0))

\* array element i (1-based), converted to a string as parseInt does
ElemStr(arr, i) == IF i <= Len(arr) THEN arr[i] ELSE Undefined

\* decimal representation of a natural number
RECURSIVE ToDigits(_)
ToDigits(n) ==
    IF n < 10 THEN <<Digits[n + 1]>> ELSE ToDigits(n \div 10) \o <<Digits[(n % 10) + 1]>>

RECURSIVE Concat(_)
Concat(ss) == IF ss = <<>> THEN <<>> ELSE Head(ss) \o Concat(Tail(ss))

(***************************************************************************)
(* State.                                                                  *)
(***************************************************************************)
VARIABLES
    platform,   \* process.platform
    task,       \* per name: the checkProcess or killProcess call in progress
    log,        \* per name: the commands and timers a single-name call
                \* completed, in order (history)
    all,        \* the checkAllProcesses or killAllProcesses call
    workspace,  \* vscode.workspace.workspaceFolders and the dub files in them
    visibility, \* the last checkStatusbarVisibility call and its result
    dubProject, \* the last checkDubProject call and its result
    dubLoaded,  \* the module variable dubLoaded of statusbar.ts
    selectorSets,   \* the selectors each creating setupDub call constructed
    disposables,    \* the disposables the setupDub calls returned
    startup,    \* the fields of the StartupProgress object
    sessions    \* the progress sessions window.withProgress opened

\* the state of the ProcessManager and the state of the status bar
manager == <<platform, task, log, all>>

view == <<workspace, visibility, dubProject>>

selectors == <<dubLoaded, selectorSets, disposables>>

startupProgress == <<startup, sessions>>

statusbar ==
    <<workspace, visibility, dubProject, dubLoaded, selectorSets, disposables,
      startup, sessions>>

vars ==
    <<platform, task, log, all, workspace, visibility, dubProject, dubLoaded,
      selectorSets, disposables, startup, sessions>>

(***************************************************************************)
(* Names, commands and what the environment can answer.                    *)
(***************************************************************************)
\* the names passed by checkAllProcesses and killAllProcesses
ManagedSet == {"serve-d", "dcd-server", "dcd-client"}

\* the names the single-name operations are called with: the managed names
\* and one that is also a word of the line tasklist prints for no match
Names == ManagedSet \cup {"tasks"}

NameChars(name) ==
    CASE name = "serve-d" -> <<"s", "e", "r", "v", "e", "-", "d">>
      [] name = "dcd-server" -> <<"d", "c", "d", "-", "s", "e", "r", "v", "e", "r">>
      [] name = "dcd-client" -> <<"d", "c", "d", "-", "c", "l", "i", "e", "n", "t">>
      [] OTHER -> <<"t", "a", "s", "k", "s">>

Platforms == {"win32", "linux"}

\* `err.code === 128`: taskkill found no process with that image name
NotFoundCode == 128

\* `err.code === 1`: pgrep, pkill, killall and kill matched no process
NoProcessesCode == 1

\* exit statuses of a failed command other than "nothing matched":
\* a usage error of the Unix utilities, access denied on Windows
UnixFailures == {2}

WindowsFailures == {1}

\* exec resolves when the command exits with status 0 and rejects otherwise
Succeeded(res) == res.code = 0

\* the timeout of the settle delay, in milliseconds
SettleDelay == 1000

\* is a checkAllProcesses or killAllProcesses call in progress
Concurrent == all.kind # "none"

\* the listings of one to MaxPids processes, with the process ids 9, 10, ...
\* in ascending order; a single process for the
\* concurrent tasks of checkAllProcesses and killAllProcesses
PidLists ==
    {[i \in 1..k |-> 8 + i] : k \in 1..(IF Concurrent THEN 1 ELSE MaxPids)}

\* what exec resolves with (code = 0) or rejects with (code # 0)
\* the outcome of exec: the exit status, no signal, and what was printed
ExecResult(code, stdout) == [code |-> code, signal |-> "", stdout |-> stdout]

\* `code` of the error of exec when the shell was killed by a signal: null,
\* which equals no exit status
NullCode == -1

\* the outcome of exec when the shell of the command was killed by a signal
KilledBy(signal) == [code |-> NullCode, signal |-> signal, stdout |-> <<>>]

\* the name of the signal that the flag -9 or -15 sends
SignalName(sig) == IF sig = "-9" THEN "SIGKILL" ELSE "SIGTERM"

\* one line per process id, as pgrep prints them
RECURSIVE PgrepLines(_)
PgrepLines(pids) ==
    IF pids = <<>> THEN <<>>
    ELSE ToDigits(Head(pids)) \o <<"\n">> \o PgrepLines(Tail(pids))

\* a line on stdout that is not a process id, before a process id
NoiseStdout == <<"x", "\n", "9", "\n">>

\* outcomes of a pgrep command: matches, no output, noise, no match, failure
PgrepResults ==
    {ExecResult(0, PgrepLines(l)) : l \in PidLists}
    \cup (IF Concurrent THEN {} ELSE {ExecResult(0, <<>>), ExecResult(0, NoiseStdout)})
    \cup {ExecResult(c, <<>>) : c \in {NoProcessesCode} \cup UnixFailures}

\* one record of tasklist /FO CSV /NH
TasklistRecord(name, pid) ==
    Concat(<<<<"\"">>, NameChars(name), <<".", "e", "x", "e", "\"", ",", "\"">>, ToDigits(pid),
             <<"\"", ",", "\"", "C", "o", "n", "s", "o", "l", "e", "\"", ",", "\"", "1", "\"", ",", "\"", "1", "2", ",", "3", "4", "5", " ", "K", "\"", "\r", "\n">>>>)

RECURSIVE TasklistRecords(_, _)
TasklistRecords(name, pids) ==
    IF pids = <<>> THEN <<>>
    ELSE TasklistRecord(name, Head(pids)) \o TasklistRecords(name, Tail(pids))

\* what tasklist prints when the filter matches nothing
TasklistInfo ==
    <<"I", "N", "F", "O", ":", " ", "N", "o", " ", "t", "a", "s", "k", "s", " ", "a", "r", "e", " ", "r", "u", "n", "n", "i", "n", "g", " ", "w", "h", "i", "c", "h", " ", "m", "a", "t", "c", "h", " ", "t", "h", "e", " ", "s", "p", "e", "c", "i", "f", "i", "e", "d", " ", "c", "r", "i", "t", "e", "r", "i", "a", ".", "\r", "\n">>

\* outcomes of the tasklist command: records, the INFO line, nothing, failure
TasklistResults(name) ==
    {ExecResult(0, TasklistRecords(name, l)) : l \in PidLists}
    \cup {ExecResult(0, TasklistInfo)}
    \cup (IF Concurrent THEN {} ELSE {ExecResult(0, <<>>)})
    \cup {ExecResult(c, <<>>) : c \in WindowsFailures}

\* outcomes of taskkill
TaskkillResults ==
    {ExecResult(c, <<>>) : c \in {0, NotFoundCode} \cup WindowsFailures}

\* outcomes of `killall <sig> <name> || pkill <sig> -f <name>`: an exit
\* status, or, when killall fails and pkill -f matches the command line of
\* the shell that runs this very command, the death of that shell by sig
BroadKillResults(sig) ==
    {ExecResult(c, <<>>) : c \in {0, NoProcessesCode} \cup UnixFailures}
    \cup {KilledBy(SignalName(sig))}

\* a line that kill accepts as a process id: digits only
IsPid(line) == line # <<>> /\ \A i \in 1..Len(line) : IsDigit(line[i])

\* outcomes of `kill <signal> <pid>`: sent or no such process for a process
\* id; for any other word the error status of the kill of the shell, which
\* is 2 in dash and 1 in bash
KillResults(pid) ==
    {ExecResult(c, <<>>) :
        c \in IF IsPid(pid) THEN {0, NoProcessesCode}
              ELSE {NoProcessesCode} \cup UnixFailures}

(***************************************************************************)
(* checkProcess.                                                           *)
(***************************************************************************)
\* NotRunning with 0 in place of the sentinel
NotRunningZeroPid(name) == [name |-> name, pid |-> Num(0), running |-> FALSE]

NotRunning(name) == [name |-> name, pid |-> Num(-1), running |-> FALSE]

\* the value of `info` before a probe has answered
NoInfo == [name |-> "", pid |-> NaN, running |-> FALSE]

\* checkProcessWindows, given the outcome of the tasklist command
CheckProcessWindows(name, res) ==
    IF ~Succeeded(res)
    THEN NotRunning(name)
    ELSE LET lines == Split(Trim(res.stdout), <<"\r", "\n">>)
         IN  IF Len(lines) > 0 /\ Includes(lines[1], NameChars(name))
             THEN LET parts == Split(StripQuotes(lines[1]), <<",">>)
                  IN  [name |-> name, pid |-> ParseInt(ElemStr(parts, 2)),
                       running |-> TRUE, command |-> parts[1]]
             ELSE NotRunning(name)

\* the commands of checkProcessUnix, in the order they are tried
Patterns == <<"pgrep -f", "pgrep -x", "pgrep -f /.*">>

\* the process ids checkProcessUnix reads from the stdout of one pattern
ProbePids(stdout) ==
    SelectSeq(Split(Trim(stdout), <<"\n">>),
              LAMBDA line : Len(line) > 0 /\ ParseInt(line) # NaN)

\* does the pattern whose command ended in res end the loop with a result
PatternYields(res) == Succeeded(res) /\ Len(ProbePids(res.stdout)) > 0

\* the ProcessInfo returned from inside the loop
PatternInfo(name, res) ==
    [name |-> name, pid |-> ParseInt(ProbePids(res.stdout)[1]), running |-> TRUE]

\* ProbeStep with the try around the loop only: a failed command ends the loop
ProbeStepAbort(name, strat, res) ==
    IF PatternYields(res)
    THEN [done |-> TRUE, strat |-> strat, info |-> PatternInfo(name, res)]
    ELSE IF strat < Len(Patterns) /\ Succeeded(res)
         THEN [done |-> FALSE, strat |-> strat + 1, info |-> NoInfo]
         ELSE [done |-> TRUE, strat |-> strat, info |-> NotRunning(name)]

\* one pass of the loop over the patterns: the pattern `strat` ended in res
ProbeStep(name, strat, res) ==
    IF PatternYields(res)
    THEN [done |-> TRUE, strat |-> strat, info |-> PatternInfo(name, res)]
    ELSE IF strat < Len(Patterns)
         THEN [done |-> FALSE, strat |-> strat + 1, info |-> NoInfo]
         ELSE [done |-> TRUE, strat |-> strat, info |-> NotRunning(name)]

(***************************************************************************)
(* killProcess.                                                            *)
(***************************************************************************)
\* Signal with -9 whatever force is
SignalAlwaysForce(force) == "-9"

\* `const signal = force ? "-9" : "-15"`
Signal(force) == IF force THEN "-9" ELSE "-15"

\* Flag with /F whatever force is
FlagAlways(force) == "/F"

\* `const flag = force ? "/F" : ""`
Flag(force) == IF force THEN "/F" ELSE ""

\* the process ids killProcessUnix reads from the stdout of pgrep
KillPids(stdout) ==
    SelectSeq(Split(Trim(stdout), <<"\n">>), LAMBDA line : Len(line) > 0)

\* an activation of killProcessUnix
NewFrame(force) ==
    [force |-> force, killed |-> FALSE, pids |-> <<>>,
     status |-> "active", ret |-> FALSE]

\* EscalationResult that keeps the outcome of the graceful attempt
EscalationResultOr(frame, v) == frame.killed \/ v

\* `return this.killProcessUnix(name, true)`: what the caller returns when
\* the forced call it made returned v
EscalationResult(frame, v) == v

\* the frames after the innermost activation returned v
RECURSIVE Unwind(_, _)
Unwind(frames, v) ==
    IF frames = <<>> THEN <<>>
    ELSE LET k == Len(frames)
             outer == SubSeq(frames, 1, k - 1)
         IN  Append(IF k > 1 THEN Unwind(outer, EscalationResult(frames[k - 1], v))
                             ELSE <<>>,
                    [frames[k] EXCEPT !.status = "returned", !.ret = v])

\* the frames after the innermost activation threw: the promise returned by
\* the caller is rejected with the same error
Rethrow(frames) == [i \in 1..Len(frames) |-> [frames[i] EXCEPT !.status = "threw"]]

IdleTask ==
    [op |-> "none", pc |-> "idle", force |-> FALSE, strat |-> 0,
     info |-> NoInfo, frames |-> <<>>, ret |-> FALSE, err |-> 0]

NoCall == [kind |-> "none", force |-> FALSE, status |-> "none", result |-> <<>>, err |-> 0]

\* a completed command or timer: the source line that awaits it, the utility,
\* its signal or flag, its argument, its outcome and the depth of the
\* killProcessUnix activation that issued it
Entry(line, cmd, sig, arg, res, depth) ==
    [line |-> line, cmd |-> cmd, sig |-> sig, arg |-> arg, code |-> res.code,
     signal |-> res.signal, stdout |-> res.stdout, depth |-> depth]

(***************************************************************************)
(* The workspace, documents and editors (src/src/statusbar.ts).            *)
(***************************************************************************)
Upper ==
    <<"A", "B", "C", "D", "E", "F", "G", "H", "I", "J", "K", "L", "M",
      "N", "O", "P", "Q", "R", "S", "T", "U", "V", "W", "X", "Y", "Z">>

Lower ==
    <<"a", "b", "c", "d", "e", "f", "g", "h", "i", "j", "k", "l", "m",
      "n", "o", "p", "q", "r", "s", "t", "u", "v", "w", "x", "y", "z">>

\* String.prototype.toLowerCase on ASCII text
ToLowerCase(s) ==
    [i \in 1..Len(s) |->
        IF \E k \in 1..Len(Upper) : Upper[k] = s[i]
        THEN Lower[CHOOSE k \in 1..Len(Upper) : Upper[k] = s[i]]
        ELSE s[i]]

\* path.basename of a path that does not end with a separator
Basename(p) == LET parts == Split(p, <<"/">>) IN parts[Len(parts)]

\* path.join of a normalized directory and a file name
PathJoin(dir, file) == dir \o <<"/">> \o file

DubJson == <<"d", "u", "b", ".", "j", "s", "o", "n">>

DubSdl == <<"d", "u", "b", ".", "s", "d", "l">>

\* the workspace folder of position i; dubJson and dubSdl tell whether the
\* file exists in it
Folder(i, dubJson, dubSdl) ==
    [fsPath |-> <<"/", "w">> \o ToDigits(i), dubJson |-> dubJson, dubSdl |-> dubSdl]

\* workspaceFolders is undefined when no folder is open
NoWorkspace == [defined |-> FALSE, folders |-> <<>>]

\* no folder, an empty list, one folder with or without each dub file, and
\* two folders of which only the second holds a dub.json
Workspaces ==
    {NoWorkspace, [defined |-> TRUE, folders |-> <<>>]}
    \cup {[defined |-> TRUE, folders |-> <<Folder(1, j, l)>>] : j \in BOOLEAN, l \in BOOLEAN}
    \cup {[defined |-> TRUE, folders |-> <<Folder(1, FALSE, FALSE), Folder(2, TRUE, FALSE)>>]}

AppD == <<"/", "w", "1", "/", "a", "p", "p", ".", "d">>

NoDocument == [languageId |-> "", fileName |-> <<>>]

\* the documents an editor can show: a file that is no dub file in a D
\* language and in another one, and files named like a dub file or nearly
Documents ==
    {[languageId |-> l, fileName |-> AppD] : l \in {"di", "diet", "plaintext"}}
    \cup {[languageId |-> "json",
           fileName |-> <<"/", "w", "1", "/", "D", "u", "b", ".", "J", "S", "O", "N">>],
          [languageId |-> "plaintext",
           fileName |-> <<"/", "w", "1", "/", "s", "u", "b", "/", "d", "u", "b", ".", "s", "d", "l">>],
          [languageId |-> "plaintext",
           fileName |-> <<"/", "w", "1", "/", "d", "u", "b", ".", "s", "d", "l", ".", "b", "a", "k">>]}

\* an editor argument: null, undefined or a text editor; override is the
\* value of the override setting for the resource of its document
NullEditor == [kind |-> "null", document |-> NoDocument, override |-> FALSE]

UndefinedEditor == [kind |-> "undefined", document |-> NoDocument, override |-> FALSE]

TextEditors ==
    {[kind |-> "editor", document |-> d, override |-> FALSE] : d \in Documents}
    \cup {[kind |-> "editor", override |-> TRUE,
           document |-> [languageId |-> "plaintext", fileName |-> AppD]]}

EditorArgs == {NullEditor, UndefinedEditor} \cup TextEditors

\* vscode.window.activeTextEditor
ActiveEditors == {UndefinedEditor} \cup TextEditors

\* the active editors that make a difference to a call with this editor
\* argument: window.activeTextEditor is read only when it is undefined
ActiveEditorsRead(editor) ==
    IF editor.kind = "undefined" THEN ActiveEditors ELSE {UndefinedEditor}

IsStatusbarRelevantDocument(document) ==
    LET language == document.languageId
        filename == Basename(ToLowerCase(document.fileName))
    IN  \/ language \in {"d", "di", "dml", "diet"}
        \/ filename = DubJson
        \/ filename = DubSdl

\* workspaceFolders !== undefined && workspaceFolders.length > 0
HasFolders(w) == w.defined /\ Len(w.folders) > 0

\* checkStatusbarVisibility(overrideConfig, editor): override is the value
\* of the setting without a resource, active is window.activeTextEditor
StatusbarVisible(w, override, editor, active) ==
    IF override
    THEN TRUE
    ELSE IF editor.kind = "null"
         THEN HasFolders(w)
         ELSE LET resolved == IF editor.kind = "undefined" THEN active ELSE editor
              IN  IF resolved.kind = "editor"
                  THEN IF resolved.override \/ IsStatusbarRelevantDocument(resolved.document)
                       THEN TRUE
                       ELSE HasFolders(w)
                  ELSE HasFolders(w)

\* the `result` object checkDubProject starts with; dubConfigPath is <<>>
\* while the field is not set
NewDubProjectCheck ==
    [hasWorkspace |-> FALSE, hasDubJson |-> FALSE, hasDubSdl |-> FALSE,
     hasSourceFiles |-> FALSE, isDubProject |-> FALSE, dubConfigPath |-> <<>>]

\* what fs.access can find for the dub.json (json = TRUE) or the dub.sdl of
\* the directory dir at the moment it reads the file system, when the
\* workspace is w: what the folder holds while it is open, anything once it
\* was closed
FileExists(w, dir, json) ==
    IF \E i \in DOMAIN w.folders : w.folders[i].fsPath = dir
    THEN {IF json THEN w.folders[i].dubJson ELSE w.folders[i].dubSdl :
             i \in {k \in DOMAIN w.folders : w.folders[k].fsPath = dir}}
    ELSE BOOLEAN

\* the end of checkDubProject, after the last await: isDubProject and
\* dubConfigPath are determined from the flags read before
DetermineDubProject(result, workspaceFolder) ==
    [result EXCEPT
        !.isDubProject = result.hasDubJson \/ result.hasDubSdl,
        !.dubConfigPath =
            IF result.hasDubJson THEN PathJoin(workspaceFolder, DubJson)
            ELSE IF result.hasDubSdl THEN PathJoin(workspaceFolder, DubSdl)
            ELSE <<>>]

NoVisibility ==
    [called |-> FALSE, override |-> FALSE, editor |-> NullEditor,
     active |-> UndefinedEditor, shown |-> FALSE]

\* no checkDubProject call was made; pc is the await a call is suspended
\* at, disturbed tells that the workspace changed since the call began;
\* access tells whether the fs.access of the pending fileExists was issued
\* only or already made by the thread pool, with the answer its callback
\* will deliver
NoCheck ==
    [pc |-> "idle", workspaceFolder |-> <<>>, disturbed |-> FALSE,
     access |-> "none", answer |-> FALSE, result |-> NewDubProjectCheck]

(***************************************************************************)
(* The selectors of setupDub and the StartupProgress object.               *)
(***************************************************************************)
\* the selectors setupDub constructs, in order
SelectorClasses ==
    <<"ConfigSelector", "ArchSelector", "BuildSelector", "CompilerSelector",
      "DubCommandSelector", "RunSelector">>

\* the event of `served` a selector listens to besides workspace-change
SelectorEvent(class) ==
    CASE class = "ConfigSelector" -> "config-change"
      [] class = "ArchSelector" -> "arch-type-change"
      [] class = "BuildSelector" -> "build-type-change"
      [] class = "CompilerSelector" -> "compiler-change"
      [] OTHER -> "dub-command-change"

\* item.show() or item.hide()
ItemState(visible) == IF visible THEN "shown" ELSE "hidden"

\* a selector after create(): its status-bar item, whether its
\* onDidChangeActiveTextEditor listener is subscribed, and the events of
\* `served` it registered a handler for
NewSelector(class, visible) ==
    [class |-> class,
     item |-> ItemState(visible),
     listening |-> TRUE,
     handlers |-> {SelectorEvent(class), "workspace-change"}]

\* dispose() of a selector: Disposable.from(...this.subscriptions).dispose()
DisposeSelector(sel) == [sel EXCEPT !.listening = FALSE]

\* updateDocumentVisibility of a selector whose listener is subscribed
UpdateDocumentVisibility(sel, visible) ==
    IF sel.listening /\ sel.item # "disposed"
    THEN [sel EXCEPT !.item = ItemState(visible)]
    ELSE sel

\* `editor || null` of the onDidChangeActiveTextEditor listener
OrNull(editor) == IF editor.kind = "editor" THEN editor ELSE NullEditor

\* a StartupProgress after construction; progress and resolve hold the
\* number of the session they belong to, 0 for undefined
NewStartupProgress == [startedGlobal |-> FALSE, progress |-> 0, resolve |-> 0]

\* the callback passed to withProgress, run for session s
ProgressCallback(sp, s) == [sp EXCEPT !.progress = s, !.resolve = s]

Init ==
    /\ platform \in Platforms
    /\ task = [n \in Names |-> IdleTask]
    /\ log = [n \in Names |-> <<>>]
    /\ all = NoCall
    /\ workspace = NoWorkspace
    /\ visibility = NoVisibility
    /\ dubProject = NoCheck
    /\ dubLoaded = FALSE
    /\ selectorSets = <<>>
    /\ disposables = <<>>
    /\ startup = NewStartupProgress
    /\ sessions = <<>>

\* the task of a checkProcess(name) call up to its first await
StartCheck ==
    IF platform = "win32"
    THEN [IdleTask EXCEPT !.op = "checkProcess", !.pc = "tasklist"]
    ELSE [IdleTask EXCEPT !.op = "checkProcess", !.pc = "probe", !.strat = 1]

\* the task of a killProcess(name, force) call up to its first await
StartKill(force) ==
    IF platform = "win32"
    THEN [IdleTask EXCEPT !.op = "killProcess", !.pc = "taskkill", !.force = force]
    ELSE [IdleTask EXCEPT !.op = "killProcess", !.pc = "broad", !.force = force,
                          !.frames = <<NewFrame(force)>>]

Idle == all.kind = "none" /\ \A n \in Names : task[n].op = "none"

\* Promise.all over the tasks of the managed names: rejected as soon as one
\* task is rejected, fulfilled once all are fulfilled
Join(a, t) ==
    IF a.status # "pending" THEN a
    ELSE IF \E n \in ManagedSet : t[n].pc = "raised"
         THEN LET n == CHOOSE m \in ManagedSet : t[m].pc = "raised"
              IN  [a EXCEPT !.status = "raised", !.err = t[n].err]
         ELSE IF \A n \in ManagedSet : t[n].pc = "done"
              THEN [a EXCEPT !.status = "returned",
                             !.result = [n \in ManagedSet |->
                                           IF a.kind = "checkAllProcesses"
                                           THEN t[n].info ELSE t[n].ret]]
              ELSE a

\* a step of the task of name n: its new value and the entry it logs
Step(n, t, e) ==
    /\ task' = [task EXCEPT ![n] = t]
    /\ log' = IF all.kind = "none" THEN [log EXCEPT ![n] = Append(@, e)] ELSE log
    /\ all' = Join(all, task')
    /\ UNCHANGED <<platform, statusbar>>

(***************************************************************************)
(* Calls.                                                                  *)
(***************************************************************************)
CheckProcess(n) ==
    /\ Idle
    /\ task' = [task EXCEPT ![n] = StartCheck]
    /\ UNCHANGED <<platform, log, all, statusbar>>

KillProcess(n, force) ==
    /\ Idle
    /\ task' = [task EXCEPT ![n] = StartKill(force)]
    /\ UNCHANGED <<platform, log, all, statusbar>>

CheckAllProcesses ==
    /\ Idle
    /\ task' = [n \in Names |-> IF n \in ManagedSet THEN StartCheck ELSE task[n]]
    /\ all' = [NoCall EXCEPT !.kind = "checkAllProcesses", !.status = "pending"]
    /\ UNCHANGED <<platform, log, statusbar>>

KillAllProcesses(force) ==
    /\ Idle
    /\ task' = [n \in Names |-> IF n \in ManagedSet THEN StartKill(force) ELSE task[n]]
    /\ all' = [NoCall EXCEPT !.kind = "killAllProcesses", !.force = force,
                             !.status = "pending"]
    /\ UNCHANGED <<platform, log, statusbar>>

(***************************************************************************)
(* Steps of checkProcess.                                                  *)
(***************************************************************************)
\* the tasklist command of checkProcessWindows completes
WinProbe(n) ==
    /\ task[n].pc = "tasklist"
    /\ \E res \in TasklistResults(n) :
          Step(n, [task[n] EXCEPT !.pc = "done",
                                  !.info = CheckProcessWindows(n, res)],
               Entry(136, "tasklist", "", NameChars(n) \o <<".", "e", "x", "e">>, res, 0))

\* the pgrep command of one pattern of checkProcessUnix completes
UnixProbe(n) ==
    /\ task[n].op = "checkProcess"
    /\ task[n].pc = "probe"
    /\ \E res \in PgrepResults :
          LET p == ProbeStep(n, task[n].strat, res)
          IN  Step(n, [task[n] EXCEPT !.pc = IF p.done THEN "done" ELSE "probe",
                                      !.strat = p.strat,
                                      !.info = p.info],
                   Entry(164, Patterns[task[n].strat], "", NameChars(n), res, 0))

(***************************************************************************)
(* Steps of killProcess.                                                   *)
(***************************************************************************)
\* killProcessWindows, given the outcome of the taskkill command
KillProcessWindows(t, res) ==
    IF Succeeded(res)
    THEN [t EXCEPT !.pc = "done", !.ret = TRUE]
    ELSE IF res.code = NotFoundCode
         THEN [t EXCEPT !.pc = "done", !.ret = FALSE]
         ELSE [t EXCEPT !.pc = "raised", !.err = res.code]

\* the taskkill command of killProcessWindows completes
WinKill(n) ==
    /\ task[n].pc = "taskkill"
    /\ \E res \in TaskkillResults :
          Step(n, KillProcessWindows(task[n], res),
               Entry(204, "taskkill", Flag(task[n].force),
                     NameChars(n) \o <<".", "e", "x", "e">>, res, 0))

\* the running activation of killProcessUnix
Top(t) == t.frames[Len(t.frames)]

SetTop(t, frame) == [t EXCEPT !.frames[Len(t.frames)] = frame]

\* the running activation returns v
Returned(t, v) ==
    LET fs == Unwind(t.frames, v)
    IN  [t EXCEPT !.frames = fs, !.pc = "done", !.ret = fs[1].ret]

\* the running activation throws
Thrown(t, code) ==
    [t EXCEPT !.frames = Rethrow(t.frames), !.pc = "raised", !.err = code]

\* Catch without the test of the exit status
CatchRethrow(t, code) == Thrown(t, code)

\* the catch clause of killProcessUnix
Catch(t, code) ==
    IF code = NoProcessesCode THEN Returned(t, Top(t).killed) ELSE Thrown(t, code)

\* AfterSignals without the settle delay and the re-probe
AfterSignalsNoVerify(t) == Returned(t, Top(t).killed)

\* AfterSignals without the test of force
AfterSignalsAlwaysVerify(t) == [t EXCEPT !.pc = "settle"]

\* AfterSignals without the settle delay: the probe is called at once
AfterSignalsNoDelay(t) ==
    IF ~Top(t).force THEN [t EXCEPT !.pc = "probe", !.strat = 1]
    ELSE Returned(t, Top(t).killed)

\* after the loop over the pids: `if (!force)` starts the settle delay,
\* otherwise `return killed`
AfterSignals(t) ==
    IF ~Top(t).force THEN [t EXCEPT !.pc = "settle"] ELSE Returned(t, Top(t).killed)

\* AfterBroad with the catch clause of the whole function: only "nothing
\* matched" is swallowed
AfterBroadCatch(t, res) ==
    IF Succeeded(res) \/ res.code = NoProcessesCode
    THEN [SetTop(t, [Top(t) EXCEPT !.killed = Succeeded(res)]) EXCEPT !.pc = "pgrep"]
    ELSE Thrown(t, res.code)

\* the result of the broad kill: `killed = true` when the command succeeded,
\* nothing when it failed, and on to the pid re-enumeration
AfterBroad(t, res) ==
    [SetTop(t, [Top(t) EXCEPT !.killed = Succeeded(res)]) EXCEPT !.pc = "pgrep"]

\* the result of the pid re-enumeration: the loop over its pids, the catch
\* clause when the command failed
AfterPgrep(t, res) ==
    IF Succeeded(res)
    THEN LET pids == KillPids(res.stdout)
         IN  IF Len(pids) > 0
             THEN [SetTop(t, [Top(t) EXCEPT !.pids = pids]) EXCEPT !.pc = "kill"]
             ELSE AfterSignals(t)
    ELSE Catch(t, res.code)

\* AfterKill without the try around one kill: a failed kill ends the loop
AfterKillAbort(t, res) ==
    LET f == [Top(t) EXCEPT !.killed = @ \/ Succeeded(res), !.pids = Tail(@)]
    IN  IF f.pids # <<>> /\ Succeeded(res)
        THEN SetTop(t, f)
        ELSE AfterSignals(SetTop(t, [f EXCEPT !.pids = <<>>]))

\* the result of `kill <signal> <pid>` for the first remaining pid
AfterKill(t, res) ==
    LET f == [Top(t) EXCEPT !.killed = @ \/ Succeeded(res), !.pids = Tail(@)]
    IN  IF f.pids # <<>> THEN SetTop(t, f) ELSE AfterSignals(SetTop(t, f))

\* AfterReprobe without the test of stillRunning.running
AfterReprobeAlways(t, info) ==
    [t EXCEPT !.info = info, !.pc = "broad", !.frames = Append(@, NewFrame(TRUE))]

\* AfterReprobe that waits again while the process runs, without a forced call
AfterReprobeRetry(t, info) ==
    IF info.running
    THEN [t EXCEPT !.info = info, !.pc = "settle"]
    ELSE Returned([t EXCEPT !.info = info], Top(t).killed)

\* the result of the probe after the settle delay: the forced call when the
\* process still runs, otherwise `return killed`
AfterReprobe(t, info) ==
    IF info.running
    THEN [t EXCEPT !.info = info, !.pc = "broad",
                   !.frames = Append(@, NewFrame(TRUE))]
    ELSE Returned([t EXCEPT !.info = info], Top(t).killed)

\* `killall <signal> <name> || pkill <signal> -f <name>` completes
UnixBroad(n) ==
    /\ task[n].pc = "broad"
    /\ \E res \in BroadKillResults(Signal(Top(task[n]).force)) :
          Step(n, AfterBroad(task[n], res),
               Entry(225, "killall||pkill", Signal(Top(task[n]).force), NameChars(n),
                     res, Len(task[n].frames)))

\* `pgrep -f "<name>"` of killProcessUnix completes
UnixPgrep(n) ==
    /\ task[n].pc = "pgrep"
    /\ \E res \in PgrepResults :
          Step(n, AfterPgrep(task[n], res),
               Entry(233, "pgrep -f", "", NameChars(n), res, Len(task[n].frames)))

\* `kill <signal> <pid>` completes
UnixKillPid(n) ==
    /\ task[n].pc = "kill"
    /\ \E res \in KillResults(Head(Top(task[n]).pids)) :
          Step(n, AfterKill(task[n], res),
               Entry(246, "kill", Signal(Top(task[n]).force), Head(Top(task[n]).pids),
                     res, Len(task[n].frames)))

\* the timer of the settle delay fires and checkProcess is called
UnixSettle(n) ==
    /\ task[n].pc = "settle"
    /\ Step(n, [task[n] EXCEPT !.pc = "probe", !.strat = 1],
            Entry(256, "setTimeout", "", ToDigits(SettleDelay), ExecResult(0, <<>>),
                  Len(task[n].frames)))

\* the pgrep command of one pattern completes, in the checkProcess call
\* that killProcessUnix made
UnixReprobe(n) ==
    /\ task[n].op = "killProcess"
    /\ task[n].pc = "probe"
    /\ \E res \in PgrepResults :
          LET p == ProbeStep(n, task[n].strat, res)
          IN  Step(n, IF p.done
                      THEN AfterReprobe(task[n], p.info)
                      ELSE [task[n] EXCEPT !.strat = p.strat],
                   Entry(164, Patterns[task[n].strat], "", NameChars(n), res,
                         Len(task[n].frames)))

(***************************************************************************)
(* The status bar.                                                         *)
(***************************************************************************)
\* folders are opened or closed, dub files appear or disappear: what was
\* computed for the workspace before is dropped, a checkDubProject call
\* that is suspended goes on
OpenWorkspace(w) ==
    /\ w # workspace
    /\ workspace' = w
    /\ visibility' = NoVisibility
    /\ dubProject' =
          IF dubProject.pc \in {"idle", "done"}
          THEN NoCheck
          ELSE [dubProject EXCEPT !.disturbed = TRUE]
    /\ UNCHANGED <<manager, selectors, startupProgress>>

CheckStatusbarVisibility(override, editor, active) ==
    /\ visibility' =
          [called |-> TRUE, override |-> override, editor |-> editor,
           active |-> active,
           shown |-> StatusbarVisible(workspace, override, editor, active)]
    /\ UNCHANGED <<manager, workspace, dubProject, selectors, startupProgress>>

\* checkDubProject() up to its first await: the early return without a
\* folder, otherwise the path of the first folder is taken
CheckDubProject ==
    /\ dubProject.pc \in {"idle", "done"}
    /\ dubProject' =
          IF ~workspace.defined \/ Len(workspace.folders) = 0
          THEN [NoCheck EXCEPT !.pc = "done"]
          ELSE [NoCheck EXCEPT
                   !.pc = "dubJson",
                   !.access = "issued",
                   !.workspaceFolder = workspace.folders[1].fsPath,
                   !.result = [NewDubProjectCheck EXCEPT !.hasWorkspace = TRUE]]
    /\ UNCHANGED <<manager, workspace, visibility, selectors, startupProgress>>

\* the thread pool makes the fs.access of the pending fileExists: the file
\* system is read now, the callback runs later
FsAccess ==
    /\ dubProject.pc \in {"dubJson", "dubSdl"}
    /\ dubProject.access = "issued"
    /\ \E exists \in FileExists(workspace, dubProject.workspaceFolder,
                                 dubProject.pc = "dubJson") :
          dubProject' = [dubProject EXCEPT !.access = "made", !.answer = exists]
    /\ UNCHANGED <<manager, workspace, visibility, selectors, startupProgress>>

\* `await fileExists(dubJsonPath)` completes with the answer of its access
\* and fileExists(dubSdlPath) is called
DubJsonChecked ==
    /\ dubProject.pc = "dubJson"
    /\ dubProject.access = "made"
    /\ dubProject' =
          [dubProject EXCEPT
              !.pc = "dubSdl", !.access = "issued", !.answer = FALSE,
              !.result.hasDubJson = dubProject.answer]
    /\ UNCHANGED <<manager, workspace, visibility, selectors, startupProgress>>

\* `await fileExists(dubSdlPath)` completes with the answer of its access
\* and hasDSourceFiles is called
DubSdlChecked ==
    /\ dubProject.pc = "dubSdl"
    /\ dubProject.access = "made"
    /\ dubProject' =
          [dubProject EXCEPT
              !.pc = "sources", !.access = "none", !.answer = FALSE,
              !.result.hasDubSdl = dubProject.answer]
    /\ UNCHANGED <<manager, workspace, visibility, selectors, startupProgress>>

\* `await hasDSourceFiles(workspaceFolder)` completes with src and the
\* call returns its result
SourceFilesChecked(src) ==
    /\ dubProject.pc = "sources"
    /\ dubProject' =
          [dubProject EXCEPT
              !.pc = "done",
              !.result = DetermineDubProject([@ EXCEPT !.hasSourceFiles = src],
                                             dubProject.workspaceFolder)]
    /\ UNCHANGED <<manager, workspace, visibility, selectors, startupProgress>>

\* setupDub(served); override and active are what the first
\* updateDocumentVisibility() of each selector reads
SetupDub(override, active) ==
    /\ Len(disposables) < MaxSetups
    /\ IF dubLoaded
       THEN /\ disposables' = Append(disposables, [set |-> 0, disposed |-> FALSE])
            /\ UNCHANGED <<dubLoaded, selectorSets>>
       ELSE LET visible == StatusbarVisible(workspace, override, UndefinedEditor, active)
            IN  /\ dubLoaded' = TRUE
                /\ selectorSets' =
                      Append(selectorSets,
                             [i \in DOMAIN SelectorClasses |->
                                 NewSelector(SelectorClasses[i], visible)])
                /\ disposables' =
                      Append(disposables,
                             [set |-> Len(selectorSets) + 1, disposed |-> FALSE])
    /\ UNCHANGED <<manager, view, startupProgress>>

\* dispose() of the disposable a setupDub call returned; a Disposable runs
\* its function once
Dispose(d) ==
    /\ ~disposables[d].disposed
    /\ disposables' = [disposables EXCEPT ![d].disposed = TRUE]
    /\ IF disposables[d].set = 0
       THEN UNCHANGED <<dubLoaded, selectorSets>>
       ELSE /\ dubLoaded' = FALSE
            /\ selectorSets' =
                  [selectorSets EXCEPT ![disposables[d].set] =
                      [i \in DOMAIN @ |-> DisposeSelector(@[i])]]
    /\ UNCHANGED <<manager, view, startupProgress>>

\* the window fires onDidChangeActiveTextEditor
ChangeActiveTextEditor(override, editor) ==
    /\ selectorSets' =
          [k \in DOMAIN selectorSets |->
              [i \in DOMAIN selectorSets[k] |->
                  UpdateDocumentVisibility(
                      selectorSets[k][i],
                      StatusbarVisible(workspace, override, OrNull(editor), editor))]]
    /\ UNCHANGED <<manager, view, dubLoaded, disposables, startupProgress>>

\* startGlobal(); the host runs the callback of withProgress before
\* withProgress returns (sync) or later
StartGlobal(sync) ==
    IF startup.startedGlobal
    THEN UNCHANGED vars
    ELSE /\ Len(sessions) < MaxSessions
         /\ sessions' = Append(sessions, [invoked |-> sync, resolved |-> FALSE])
         /\ startup' =
               IF sync
               THEN ProgressCallback([startup EXCEPT !.startedGlobal = TRUE],
                                     Len(sessions) + 1)
               ELSE [startup EXCEPT !.startedGlobal = TRUE]
         /\ UNCHANGED <<manager, view, selectors>>

\* the host runs the callback of withProgress for session s
InvokeCallback(s) ==
    /\ ~sessions[s].invoked
    /\ sessions' = [sessions EXCEPT ![s].invoked = TRUE]
    /\ startup' = ProgressCallback(startup, s)
    /\ UNCHANGED <<manager, view, selectors>>

\* finishGlobal()
FinishGlobal ==
    IF ~startup.startedGlobal
    THEN UNCHANGED vars
    ELSE /\ startup' = NewStartupProgress
         /\ sessions' =
               IF startup.resolve # 0
               THEN [sessions EXCEPT ![startup.resolve].resolved = TRUE]
               ELSE sessions
         /\ UNCHANGED <<manager, view, selectors>>

(***************************************************************************)
(* Specifications.                                                         *)
(***************************************************************************)
ProbeSteps == \E n \in Names : WinProbe(n) \/ UnixProbe(n)

KillSteps ==
    \E n \in Names :
        \/ WinKill(n)
        \/ UnixBroad(n)
        \/ UnixPgrep(n)
        \/ UnixKillPid(n)
        \/ UnixSettle(n)
        \/ UnixReprobe(n)

\* one checkProcess call
NextProbe ==
    \/ \E n \in Names : CheckProcess(n)
    \/ ProbeSteps

SpecProbe == Init /\ [][NextProbe]_vars

\* one killProcess call
NextKill ==
    \/ \E n \in Names, force \in BOOLEAN : KillProcess(n, force)
    \/ KillSteps

SpecKill == Init /\ [][NextKill]_vars

\* one checkAllProcesses or killAllProcesses call
NextAll ==
    \/ CheckAllProcesses
    \/ \E force \in BOOLEAN : KillAllProcesses(force)
    \/ ProbeSteps
    \/ KillSteps

SpecAll == Init /\ [][NextAll]_vars

\* any call of the ProcessManager
NextManager == NextProbe \/ NextKill \/ NextAll

SpecManager == Init /\ [][NextManager]_vars

\* the workspace changes, the status bar asks whether to show itself
NextVisibility ==
    \/ \E w \in Workspaces : OpenWorkspace(w)
    \/ \E override \in BOOLEAN, editor \in EditorArgs :
          \E active \in ActiveEditorsRead(editor) :
              CheckStatusbarVisibility(override, editor, active)
    \/ CheckDubProject
    \/ FsAccess
    \/ DubJsonChecked
    \/ DubSdlChecked
    \/ \E src \in BOOLEAN : SourceFilesChecked(src)

SpecVisibility == Init /\ [][NextVisibility]_vars

\* setupDub calls in a window that has no editor yet and with the override
\* setting off, disposals, and editor changes in a changing workspace
NextSelectors ==
    \/ \E w \in Workspaces : OpenWorkspace(w)
    \/ SetupDub(FALSE, UndefinedEditor)
    \/ \E d \in DOMAIN disposables : Dispose(d)
    \/ \E override \in BOOLEAN, editor \in ActiveEditors :
          ChangeActiveTextEditor(override, editor)

SpecSelectors == Init /\ [][NextSelectors]_vars

\* the startup progress and its host
NextStartup ==
    \/ \E sync \in BOOLEAN : StartGlobal(sync)
    \/ \E s \in DOMAIN sessions : InvokeCallback(s)
    \/ FinishGlobal

SpecStartup == Init /\ [][NextStartup]_vars

Next == NextManager \/ NextVisibility \/ NextSelectors \/ NextStartup

Spec == Init /\ [][Next]_vars

(***************************************************************************)
(* Reading the history of a single-name call.                              *)
(***************************************************************************)
\* the positions of the log of n whose entry was awaited at a source line
At(n, lines) == {i \in DOMAIN log[n] : log[n][i].line \in lines}

\* the settle delays that elapsed
Settles(n) == At(n, {256})

\* the checkProcess calls made by killProcessUnix: each runs its first pattern
Reprobes(n) == {i \in At(n, {164}) : log[n][i].cmd = Patterns[1]}

\* a signal went out: the broad kill or a kill of one pid succeeded
Dispatched(n) == \E i \in At(n, {225, 246}) : log[n][i].code = 0

\* a killProcess call on the non-Windows branch
UnixKill(n) == task[n].op = "killProcess" /\ platform # "win32"

(***************************************************************************)
(* Properties of checkProcess.                                             *)
(***************************************************************************)
\* C1: checkProcess never raises, on both branches and for every outcome of
\* the listing commands, and the ProcessInfo it returns has pid = -1 exactly
\* when running = false.
ProbeSentinel ==
    \A n \in Names :
        task[n].op = "checkProcess" =>
            /\ task[n].pc # "raised"
            /\ task[n].pc = "done" =>
                  /\ task[n].info.name = n
                  /\ task[n].info.pid = Num(-1) <=> ~task[n].info.running

\* a probe on Windows whose tasklist command failed has answered
ProbeSentinelWitness ==
    \E n \in Names :
        /\ platform = "win32"
        /\ task[n].op = "checkProcess"
        /\ task[n].pc = "done"
        /\ log[n][1].code # 0
        /\ task[n].info = [name |-> n, pid |-> Num(-1), running |-> FALSE]

\* C10: checkProcessUnix runs the patterns in the order -f name, -x name,
\* -f /.*name; it stops at the first pattern whose output holds a pid and
\* reports that output's first pid; a pattern whose command fails or lists
\* nothing is followed by the next one; after three without a pid the
\* result is not running.
PatternsInOrder ==
    \A n \in Names :
        (task[n].op = "checkProcess" /\ platform # "win32") =>
            LET k == Len(log[n])
                Yields(i) == log[n][i].code = 0 /\ ProbePids(log[n][i].stdout) # <<>>
            IN  /\ k <= Len(Patterns)
                /\ \A i \in 1..k : log[n][i].cmd = Patterns[i] /\ log[n][i].line = 164
                /\ \A i \in 1..(k - 1) : ~Yields(i)
                /\ task[n].pc = "probe" => task[n].strat = k + 1 /\ (k > 0 => ~Yields(k))
                /\ task[n].pc = "done" =>
                      /\ k >= 1
                      /\ Yields(k) =>
                            /\ task[n].info.running
                            /\ task[n].info.pid = ParseInt(ProbePids(log[n][k].stdout)[1])
                            /\ \A l \in PidLists :
                                  log[n][k].stdout = PgrepLines(l) =>
                                      task[n].info.pid = Num(l[1])
                      /\ ~Yields(k) => k = Len(Patterns) /\ task[n].info = NotRunning(n)

\* the first pattern failed, the second matched nothing, the third listed
\* two processes
PatternsInOrderWitness ==
    \E n \in Names :
        /\ platform # "win32"
        /\ task[n].op = "checkProcess"
        /\ task[n].pc = "done"
        /\ Len(log[n]) = 3
        /\ log[n][1].code \in UnixFailures
        /\ log[n][2].code = NoProcessesCode
        /\ log[n][3].stdout = PgrepLines(<<9, 10>>)
        /\ task[n].info = [name |-> n, pid |-> Num(9), running |-> TRUE]

(***************************************************************************)
(* Properties of checkAllProcesses and killAllProcesses.                   *)
(***************************************************************************)
\* C2: checkAllProcesses and killAllProcesses hand their caller one entry
\* per managed name; when the killProcess call of one name fails, the caller
\* still receives an entry for every other managed name.
AllEntries ==
    (/\ all.status \in {"returned", "raised"}
     /\ \A n \in ManagedSet : task[n].pc \in {"done", "raised"}) =>
        \A n \in ManagedSet : task[n].pc # "raised" => n \in DOMAIN all.result

(***************************************************************************)
(* Properties of killProcess.                                              *)
(***************************************************************************)
\* C3: a graceful killProcessUnix whose probe after the settle delay reports
\* the process running makes exactly one recursive call, with force = true,
\* and returns what that call returns.
EscalationReturnsInner ==
    \A n \in Names :
        (UnixKill(n) /\ ~task[n].force /\ task[n].info.running) =>
            /\ Cardinality(Settles(n)) = 1
            /\ Len(task[n].frames) = 2
            /\ ~task[n].frames[1].force
            /\ task[n].frames[2].force
            /\ task[n].pc = "done" =>
                  /\ task[n].frames[1].status = "returned"
                  /\ task[n].frames[2].status = "returned"
                  /\ task[n].frames[1].ret = task[n].frames[2].ret
                  /\ task[n].ret = task[n].frames[2].ret
                  /\ task[n].ret = \E i \in At(n, {225, 246}) :
                                       log[n][i].depth = 2 /\ log[n][i].code = 0
            /\ task[n].pc = "raised" =>
                  /\ task[n].frames[1].status = "threw"
                  /\ task[n].frames[2].status = "threw"

\* the graceful attempt sent a signal, the forced call found nothing and
\* returned false, and so did the outer call
EscalationReturnsInnerWitness ==
    \E n \in Names :
        /\ UnixKill(n) /\ ~task[n].force /\ task[n].info.running
        /\ task[n].pc = "done"
        /\ task[n].frames[1].killed
        /\ ~task[n].frames[2].ret
        /\ ~task[n].ret

\* C4 as claimed: every graceful killProcessUnix call that returns normally
\* has performed exactly one settle delay and one re-probe, whatever the
\* broad kill and the pid re-enumeration answered.
VerifyCycleAlways ==
    \A n \in Names :
        (UnixKill(n) /\ ~task[n].force /\ task[n].pc = "done") =>
            /\ Cardinality(Settles(n)) = 1
            /\ Cardinality(Reprobes(n)) = 1

\* C4 as amended: a graceful killProcessUnix call that returns normally has
\* performed exactly one settle delay directly followed by one re-probe,
\* after its signals, when its pid re-enumeration succeeded; when the
\* re-enumeration exited with status 1 it has performed neither.
VerifyCycleAfterPgrep ==
    \A n \in Names :
        (UnixKill(n) /\ ~task[n].force /\ task[n].pc = "done") =>
            /\ Len(log[n]) >= 2
            /\ log[n][1].line = 225
            /\ log[n][2].line = 233
            /\ IF log[n][2].code = 0
               THEN /\ Cardinality(Settles(n)) = 1
                    /\ Cardinality(Reprobes(n)) = 1
                    /\ \A i \in Settles(n) :
                          /\ \A j \in 1..(i - 1) :
                                /\ log[n][j].line \in {225, 233, 246}
                                /\ log[n][j].depth = 1
                          /\ \A j \in 3..(i - 1) : log[n][j].line = 246
                          /\ log[n][i].arg = ToDigits(SettleDelay)
                          /\ i + 1 \in Reprobes(n)
                          /\ log[n][i + 1].arg = NameChars(n)
                          /\ \A j \in (i + 1)..Len(log[n]) : log[n][j].line # 246 \/ log[n][j].depth = 2
               ELSE /\ log[n][2].code = NoProcessesCode
                    /\ Len(log[n]) = 2
                    /\ Settles(n) = {}
                    /\ Reprobes(n) = {}

\* the broad kill failed with a usage error, the re-enumeration listed two
\* pids, and the call returned after its settle delay and re-probe
VerifyCycleAfterPgrepWitness ==
    \E n \in Names :
        /\ UnixKill(n) /\ ~task[n].force /\ task[n].pc = "done"
        /\ log[n][1].code \in UnixFailures
        /\ log[n][2].stdout = PgrepLines(<<9, 10>>)
        /\ Cardinality(Settles(n)) = 1
        /\ Len(task[n].frames) = 1

\* C5: killProcess(name, true) runs at most one broad kill and one targeted
\* phase, no settle delay, no re-probe and no further killProcessUnix call;
\* no killProcess call escalates more than once.
ForcedNeverRecurses ==
    \A n \in Names :
        task[n].op = "killProcess" =>
            /\ Len(task[n].frames) <= 2
            /\ \A i \in 2..Len(task[n].frames) : task[n].frames[i].force
            /\ task[n].force =>
                  /\ Len(task[n].frames) <= 1
                  /\ At(n, {256, 164}) = {}
                  /\ Cardinality(At(n, {225})) <= 1
                  /\ Cardinality(At(n, {233})) <= 1
                  /\ Cardinality(At(n, {204})) <= 1
                  /\ \A i \in DOMAIN log[n] : log[n][i].sig \in {"-9", "/F", ""}

\* a forced call killed two listed pids, one of them successfully, and
\* returned
ForcedNeverRecursesWitness ==
    \E n \in Names :
        /\ UnixKill(n) /\ task[n].force /\ task[n].pc = "done"
        /\ task[n].ret
        /\ Cardinality(At(n, {246})) = 2
        /\ \E i \in At(n, {246}) : log[n][i].sig = "-9" /\ log[n][i].code = 0

\* C6: a graceful killProcessUnix whose probe after the settle delay reports
\* the process gone returns the outcome of the graceful attempt, makes no
\* forced call and has sent no signal -9.
DiedBeforeSettleCheck ==
    \A n \in Names :
        (UnixKill(n) /\ ~task[n].force /\ task[n].info = NotRunning(n)) =>
            /\ task[n].pc = "done"
            /\ Len(task[n].frames) = 1
            /\ task[n].ret = task[n].frames[1].killed
            /\ task[n].ret = Dispatched(n)
            /\ \A i \in DOMAIN log[n] : log[n][i].sig # "-9"
            /\ Cardinality(Reprobes(n)) = 1

\* the graceful attempt signalled a pid and the re-probe found nothing
DiedBeforeSettleCheckWitness ==
    \E n \in Names :
        /\ UnixKill(n) /\ ~task[n].force /\ task[n].info = NotRunning(n)
        /\ task[n].ret
        /\ \E i \in At(n, {246}) : log[n][i].sig = "-15" /\ log[n][i].code = 0

\* C7: the boolean a killProcessUnix call returns is true when, during the
\* call, the broad kill or a kill of one pid succeeded, also when the call
\* escalated from graceful to forced.
DispatchReported ==
    \A n \in Names :
        (UnixKill(n) /\ task[n].pc = "done") => (Dispatched(n) => task[n].ret)

\* every command of the call ended with its "nothing matched" status
NoMatchOnly(n) ==
    \A i \in DOMAIN log[n] :
        \/ log[n][i].line = 256
        \/ log[n][i].line = 204 /\ log[n][i].code = NotFoundCode
        \/ log[n][i].line \in {225, 233, 246, 164} /\ log[n][i].code = NoProcessesCode

\* C8: when every command reports that no process matched, killProcess
\* returns false and raises nothing, for both values of force and on both
\* branches.
AbsenceIsBenign ==
    \A n \in Names :
        (task[n].op = "killProcess" /\ NoMatchOnly(n)) =>
            /\ task[n].pc # "raised"
            /\ task[n].pc = "done" => ~task[n].ret
            /\ platform # "win32" => Len(log[n]) <= 2
            /\ Len(log[n]) = (IF platform = "win32" THEN 1 ELSE 2) => task[n].pc = "done"

\* a graceful call on the non-Windows branch found nothing and returned false
AbsenceIsBenignWitness ==
    \E n \in Names :
        /\ UnixKill(n) /\ ~task[n].force /\ NoMatchOnly(n)
        /\ Len(log[n]) = 2
        /\ task[n].pc = "done"
        /\ ~task[n].ret

\* C9: killProcessWindows issues one taskkill command, with /F exactly when
\* force is true; it returns true when the command succeeds, false when it
\* exits with 128, raises the error otherwise, and runs nothing else.
WindowsSingleCommand ==
    \A n \in Names :
        (task[n].op = "killProcess" /\ platform = "win32") =>
            /\ task[n].pc \in {"taskkill", "done", "raised"}
            /\ task[n].pc = "taskkill" => log[n] = <<>>
            /\ task[n].pc \in {"done", "raised"} =>
                  /\ Len(log[n]) = 1
                  /\ log[n][1].cmd = "taskkill"
                  /\ log[n][1].arg = NameChars(n) \o <<".", "e", "x", "e">>
                  /\ log[n][1].sig = "/F" <=> task[n].force
                  /\ log[n][1].sig \in {"/F", ""}
                  /\ log[n][1].code = 0 => task[n].pc = "done" /\ task[n].ret
                  /\ log[n][1].code = 128 => task[n].pc = "done" /\ ~task[n].ret
                  /\ log[n][1].code \notin {0, 128} =>
                        task[n].pc = "raised" /\ task[n].err = log[n][1].code

\* a forced taskkill was denied and the error reached the caller
WindowsSingleCommandWitness ==
    \E n \in Names :
        /\ task[n].op = "killProcess" /\ platform = "win32"
        /\ task[n].force
        /\ task[n].pc = "raised"
        /\ log[n][1].sig = "/F"
        /\ log[n][1].code \in WindowsFailures


(***************************************************************************)
(* Join, order of the steps, signals.                                      *)
(***************************************************************************)
\* C11: when killAllProcesses returns or raises, none of the killProcess
\* calls it started is still in progress.
JoinedOnAll ==
    (all.kind = "killAllProcesses" /\ all.status \in {"returned", "raised"}) =>
        \A n \in ManagedSet : task[n].pc \in {"done", "raised"}

\* the place of a source line in one activation of killProcessUnix
Rank(line) ==
    CASE line = 225 -> 1
      [] line = 233 -> 2
      [] line = 246 -> 3
      [] line = 256 -> 4
      [] OTHER -> 5

\* C12: in a killProcessUnix call the broad kill completes before the pid
\* re-enumeration, the re-enumeration before the per-pid kills, these before
\* the settle delay, the settle delay before the re-probe, and the re-probe
\* before the first command of the forced call; one command is awaited at a
\* time.
StepsInOrder ==
    \A n \in Names :
        UnixKill(n) =>
            LET L == log[n] IN
            /\ \A i, j \in DOMAIN L :
                  i < j =>
                      \/ L[i].depth < L[j].depth
                      \/ L[i].depth = L[j].depth /\ Rank(L[i].line) <= Rank(L[j].line)
            /\ \A i, j \in DOMAIN L :
                  (i # j /\ L[i].depth = L[j].depth /\ L[i].line = L[j].line) =>
                      L[i].line \in {246, 164}
            /\ \A i \in DOMAIN L :
                  /\ L[i].line = 233 =>
                        i > 1 /\ L[i - 1].line = 225 /\ L[i - 1].depth = L[i].depth
                  /\ L[i].line = 246 =>
                        \E j \in 1..(i - 1) :
                            L[j].line = 233 /\ L[j].code = 0 /\ L[j].depth = L[i].depth
                  /\ L[i].line = 256 =>
                        L[i].depth = 1 /\ i > 2 /\ L[i - 1].line \in {233, 246}
                  /\ L[i].line = 164 =>
                        i > 1 /\ L[i - 1].line \in {256, 164} /\ L[i].depth = 1
                  /\ (L[i].depth = 2 /\ L[i].line = 225) =>
                        /\ i > 1
                        /\ L[i - 1].line = 164
                        /\ PatternYields(ExecResult(L[i - 1].code, L[i - 1].stdout))
            /\ task[n].pc \in {"broad", "pgrep", "kill", "settle", "probe", "done", "raised"}
            /\ task[n].pc = "broad" =>
                  \A i \in DOMAIN L : L[i].depth < Len(task[n].frames)
            /\ task[n].pc = "pgrep" => L # <<>> /\ L[Len(L)].line = 225

\* an escalated call that killed pids in both attempts has returned
StepsInOrderWitness ==
    \E n \in Names :
        /\ UnixKill(n) /\ task[n].pc = "done"
        /\ \E i, j \in At(n, {246}) : log[n][i].depth = 1 /\ log[n][j].depth = 2
        /\ Cardinality(Settles(n)) = 1
        /\ Cardinality(At(n, {164})) = 3

\* C13: signal -9 goes out only when the call was made with force = true or
\* a probe after the settle delay of the graceful attempt reported the
\* process running; the broad kill and every per-pid kill of one activation
\* use the same signal, -15 without force and -9 with it.
ForceSignalOnlyEscalated ==
    \A n \in Names :
        UnixKill(n) =>
            LET L == log[n] IN
            \A i \in At(n, {225, 246}) :
                /\ L[i].sig \in {"-15", "-9"}
                /\ L[i].sig = "-9" <=> task[n].frames[L[i].depth].force
                /\ \A j \in At(n, {225, 246}) :
                      L[j].depth = L[i].depth => L[j].sig = L[i].sig
                /\ L[i].sig = "-9" =>
                      \/ task[n].force
                      \/ \E k \in 2..(i - 1) :
                            /\ L[k].line = 164
                            /\ L[k].code = 0
                            /\ ProbePids(L[k].stdout) # <<>>
                            /\ \E d \in 1..(k - 1) : L[d].line = 256

\* a graceful call sent -15 to a pid and, escalated, -9 to a pid
ForceSignalOnlyEscalatedWitness ==
    \E n \in Names :
        /\ UnixKill(n) /\ ~task[n].force
        /\ \E i, j \in At(n, {246}) :
              /\ log[n][i].sig = "-15" /\ log[n][i].depth = 1
              /\ log[n][j].sig = "-9" /\ log[n][j].depth = 2 /\ log[n][j].code = 0

\* the per-pid kills of the activation at a depth, in the order they ran
KillsAt(n, d) ==
    SelectSeq(log[n], LAMBDA e : e.line = 246 /\ e.depth = d)

\* C14: every pid the re-enumeration lists gets exactly one kill with the
\* signal of the activation, in the order listed; a kill that fails neither
\* raises nor stops the kills of the pids after it.
EveryPidSignalled ==
    \A n \in Names :
        UnixKill(n) =>
            /\ task[n].pc = "raised" => log[n][Len(log[n])].line = 233
            /\ \A d \in 1..Len(task[n].frames) :
                  \A i \in At(n, {233}) :
                      (log[n][i].depth = d /\ log[n][i].code = 0) =>
                          LET listed == KillPids(log[n][i].stdout)
                              kills == KillsAt(n, d)
                              inLoop == task[n].pc = "kill" /\ d = Len(task[n].frames)
                          IN  /\ Len(kills) <= Len(listed)
                              /\ \A k \in 1..Len(kills) :
                                    /\ kills[k].arg = listed[k]
                                    /\ kills[k].sig = Signal(task[n].frames[d].force)
                                    /\ log[n][i + k] = kills[k]
                              /\ task[n].frames[d].pids =
                                    SubSeq(listed, Len(kills) + 1, Len(listed))
                              /\ inLoop <=> Len(kills) < Len(listed)

\* two pids were listed, the kill of the first failed, the second was killed
EveryPidSignalledWitness ==
    \E n \in Names :
        /\ UnixKill(n) /\ task[n].pc = "done" /\ Len(task[n].frames) = 1
        /\ log[n][2].stdout = PgrepLines(<<9, 10>>)
        /\ Len(KillsAt(n, 1)) = 2
        /\ KillsAt(n, 1)[1].code # 0
        /\ KillsAt(n, 1)[2].code = 0
        /\ task[n].ret

\* C15: a failed broad kill, whatever its exit status, neither raises nor
\* ends the call: the pid re-enumeration runs next; the broad kill sets
\* `killed` only when its command succeeded.
BroadFailureSuppressed ==
    \A n \in Names :
        UnixKill(n) =>
            /\ \A i \in At(n, {225}) :
                  /\ i = Len(log[n]) =>
                        /\ task[n].pc = "pgrep"
                        /\ Top(task[n]).killed <=> log[n][i].code = 0
                  /\ i < Len(log[n]) =>
                        /\ log[n][i + 1].line = 233
                        /\ log[n][i + 1].depth = log[n][i].depth
            /\ task[n].pc = "raised" =>
                  /\ log[n][Len(log[n])].line = 233
                  /\ log[n][Len(log[n])].code \notin {0, NoProcessesCode}
                  /\ task[n].err = log[n][Len(log[n])].code
            /\ (task[n].pc = "done" /\ Len(task[n].frames) = 1 /\ task[n].ret) =>
                  Dispatched(n)

\* the broad kill failed with a usage error and the call went on to kill
\* a listed pid
BroadFailureSuppressedWitness ==
    \E n \in Names :
        /\ UnixKill(n) /\ task[n].force /\ task[n].pc = "done"
        /\ log[n][1].code \in UnixFailures
        /\ log[n][2].line = 233
        /\ task[n].ret


(***************************************************************************)
(* Termination.                                                            *)
(***************************************************************************)
\* the most lines a listing has in this model
MaxLines == MaxPids + 2

\* the commands and timers a task can still await, at most
StepsLeft(t) ==
    LET probes == Len(Patterns) - t.strat + 1
        forced == MaxLines + 2
    IN  CASE t.pc \in {"idle", "done", "raised"} -> 0
          [] t.pc \in {"tasklist", "taskkill"} -> 1
          [] t.op = "checkProcess" -> probes
          [] t.pc = "probe" -> probes + forced
          [] t.pc = "settle" -> 1 + Len(Patterns) + forced
          [] OTHER ->
               (CASE t.pc = "broad" -> MaxLines + 2
                  [] t.pc = "pgrep" -> MaxLines + 1
                  [] OTHER -> Len(Top(t).pids))
               + (IF Top(t).force THEN 0 ELSE 1 + Len(Patterns) + forced)

Completed(t) == t.pc \in {"idle", "done", "raised"}

\* the task of name n awaits a command or timer, and the command has an
\* outcome: the step of that command or timer can be taken
Awaits(n) ==
    \/ task[n].pc = "tasklist" /\ TasklistResults(n) # {}
    \/ task[n].pc = "taskkill" /\ TaskkillResults # {}
    \/ /\ task[n].pc = "probe"
       /\ task[n].op \in {"checkProcess", "killProcess"}
       /\ task[n].strat \in 1..Len(Patterns)
       /\ PgrepResults # {}
    \/ task[n].pc = "broad" /\ BroadKillResults(Signal(Top(task[n]).force)) # {}
    \/ task[n].pc = "pgrep" /\ PgrepResults # {}
    \/ /\ task[n].pc = "kill"
       /\ Top(task[n]).pids # <<>>
       /\ KillResults(Head(Top(task[n]).pids)) # {}
    \/ task[n].pc = "settle"

\* C16: every call completes when the commands it awaits complete: each
\* completed command or timer brings a checkProcess or killProcess call
\* strictly closer to its end, a call that has not ended always awaits one,
\* and checkAllProcesses and killAllProcesses have ended once their three
\* calls have; a killProcess call has at most two activations of
\* killProcessUnix and waits for the settle delay only in the first.
EveryCallCompletes ==
    /\ [][\A n \in Names :
            (task[n].op # "none" /\ task'[n] # task[n]) =>
                StepsLeft(task'[n]) < StepsLeft(task[n])]_vars
    /\ [](\A n \in Names :
            /\ ~Completed(task[n]) => Awaits(n)
            /\ Completed(task[n]) <=> StepsLeft(task[n]) = 0
            /\ Len(task[n].frames) <= 2
            /\ (task[n].op = "killProcess" /\ task[n].pc \in {"settle", "probe"}) =>
                  Len(task[n].frames) = 1)
    /\ [](all.status = "pending" => \E n \in ManagedSet : ~Completed(task[n]))

\* killAllProcesses(false) returned after one of its calls escalated
EveryCallCompletesWitness ==
    /\ all.kind = "killAllProcesses"
    /\ ~all.force
    /\ all.status = "returned"
    /\ \E n \in ManagedSet : Len(task[n].frames) = 2


\* C18: a checkProcess call that returns running = true returns as pid a
\* number that is not NaN and not negative
RunningHasPid ==
    \A n \in Names :
        (/\ task[n].op = "checkProcess"
         /\ task[n].pc = "done"
         /\ task[n].info.running) =>
            /\ task[n].info.pid # NaN
            /\ task[n].info.pid[1] >= 0

(***************************************************************************)
(* Visibility of the status bar.                                           *)
(***************************************************************************)
\* the call had no editor: it was passed null, or undefined while the
\* window had no active text editor
NoEditor(v) ==
    \/ v.editor.kind = "null"
    \/ v.editor.kind = "undefined" /\ v.active.kind = "undefined"

\* C17: with the override setting off and no editor, the status bar is
\* shown exactly when checkDubProject, run on the same workspace with no
\* change of the workspace meanwhile, finds a DUB project
ShownIffDubProject ==
    (/\ visibility.called
     /\ dubProject.pc = "done"
     /\ ~dubProject.disturbed
     /\ ~visibility.override
     /\ NoEditor(visibility)) =>
        (visibility.shown <=> dubProject.result.isDubProject)


(***************************************************************************)
(* Selector sets and progress sessions.                                    *)
(***************************************************************************)
\* a selector set of which a status-bar item, a listener or a handler on
\* `served` still exists
Undisposed(set) ==
    \E i \in DOMAIN set :
        \/ set[i].item # "disposed"
        \/ set[i].listening
        \/ set[i].handlers # {}

\* C19: at most one set of selectors exists undisposed at any time
AtMostOneSelectorSet ==
    Cardinality({k \in DOMAIN selectorSets : Undisposed(selectorSets[k])}) <= 1

\* C20: no progress session stays open while startedGlobal is false: after
\* finishGlobal every promise that was returned to withProgress is resolved
NoSessionOpenWhenFinished ==
    ~startup.startedGlobal =>
        \A s \in DOMAIN sessions : sessions[s].invoked => sessions[s].resolved

====
